---- MODULE Spec2Model ----
(***************************************************************************)
(* NAT traversal helpers: the STUN codec and NAT classifier of             *)
(* src/test.py (class NATDetector), the TCP hole puncher of src/test.py    *)
(* (tcp_listen, tcp_punch, handle_tcp_connection, main) and the UDP hole   *)
(* puncher of src/hole_punch.py (listen, punch, main).                     *)
(*                                                                         *)
(* Each program is a state machine of its own: StunSpec steps the          *)
(* attribute scan of parse_stun_response, NatSpec runs detect_nat_type     *)
(* probe by probe, UdpSpec and TcpSpec interleave the threads of the two   *)
(* hole punchers.                                                          *)
(***************************************************************************)
EXTENDS Integers, Sequences, FiniteSets, TLC

VARIABLES
    \* ---- parse_stun_response (src/test.py:27-51)
    response,       \* the byte buffer being parsed, a sequence of 0..255
    offset,         \* the scan offset (0-based, as in the code)
    parse_pc,       \* "entry" | "scan" | "done" | "raised"
    parsed,         \* the value returned: Absent or Mapped(ip, port)
    last_len,       \* attr_length read by the last scan step (-1: none yet)
    \* ---- NATDetector.detect_nat_type (src/test.py:71-115)
    base_port,      \* random.randint(10000, 50000)
    probe_i,        \* the loop index i of line 78
    results,        \* the list of (ip, port, local_port) of line 84
    probes,         \* one entry per get_mapped_address call made so far
    nat_type,       \* the string returned, "" while running
    nat_pc,         \* "probing" | "done"
    \* ---- the UDP hole puncher (src/hole_punch.py)
    udp_main,       \* where main is: "socket" | "spawn_listen" | "spawn_punch"
                    \*   | "window" | "set_stop" | "relay" | "close"
                    \*   | "returned" | "raised"
    udp_proc,       \* "running" | "exited": the process and its daemon threads
    udp_sock,       \* "none" | "open" | "closed"
    stop_punch,     \* the threading.Event of line 38
    listen_pc,      \* "unstarted" | "recv" | "done"
    listen_exit,    \* why listen left its loop: "" | "recv" | "decode"
    punch_pc,       \* "unstarted" | "check" | "send" | "sleep" | "done"
    udp_inbox,      \* datagrams queued on the socket, not yet received
    arrived,        \* every datagram the network has handed to the socket
    delivered,      \* the messages listen has printed, in order
    udp_wire,       \* the datagrams sent on the socket, in order
    \* ---- the TCP hole puncher (src/test.py:117-261), two sessions that
    \*      are each other's peer
    t_main,         \* main of each session: "start_listen" | "ready" | "join"
                    \*   | "returned" | "exited"
    stop_event,     \* the threading.Event of line 241
    lst_pc,         \* tcp_listen: "unstarted" | "setup" | "accept" | "done"
    lsock,          \* the listening socket: "none" | "open" | "listening"
                    \*   | "closed"
    backlog,        \* connections completed by the OS, not yet accepted
    conn,           \* the accepted connection: "none" | "open" | "closed"
    pun_pc,         \* tcp_punch: "unstarted" | "retry" | "connect"
                    \*   | "relay_check" | "input" | "done"
    osock,          \* the outbound socket: "none" | "open" | "connected"
                    \*   | "closed"
    last_sent,      \* the last message each session gave to sock.send
    reuse_ok,       \* the OS lets a socket bind to a port with a listener
    net_faults,     \* the OS and the network may fail a call at any time
    \* ---- main of src/test.py up to the start of the tasks (lines 214-235)
    t_nat,          \* nat_type of line 216, "" before it is assigned
    t_choice,       \* choice of line 222, NoChoice while not asked
    \* ---- WebRTCChat (src/pytest.py:29-248)
    rtc_state,      \* self.pc.connectionState
    data_channel,   \* "none", or the readyState of self.data_channel
    connected,      \* self.connected
    ever_connected, \* self.connected has been set from False to True
    closing,        \* close() has been called (lines 244-248)
    rtc_out,        \* the messages handed to data_channel.send, in order
    last_send       \* the last call of send_message and what it did

stunVars == <<response, offset, parse_pc, parsed, last_len>>

natVars == <<base_port, probe_i, results, probes, nat_type, nat_pc>>

udpVars == <<udp_main, udp_proc, udp_sock, stop_punch, listen_pc, listen_exit,
             punch_pc, udp_inbox, arrived, delivered, udp_wire>>

(***************************************************************************)
(* Python values.  (None, None) is Absent; (ip, port) is Mapped(ip, port). *)
(***************************************************************************)
Absent == [some |-> FALSE, ip |-> "", port |-> 0]

Mapped(ip, port) == [some |-> TRUE, ip |-> ip, port |-> port]

\* An exception leaving the function, as a value of its own.
Raised == [some |-> FALSE, ip |-> "raised", port |-> 0]

(***************************************************************************)
(* Each specification runs one program; the variables of the others keep   *)
(* their idle values.                                                      *)
(***************************************************************************)
tcpVars == <<t_main, stop_event, lst_pc, lsock, backlog, conn, pun_pc,
             osock, last_sent, reuse_ok, net_faults>>

gateVars == <<t_nat, t_choice>>

rtcVars == <<rtc_state, data_channel, connected, ever_connected, closing,
             rtc_out, last_send>>

vars == <<stunVars, natVars, udpVars, tcpVars, gateVars, rtcVars>>

StunIdle ==
    /\ response = <<>>
    /\ offset = 0
    /\ parse_pc = "idle"
    /\ parsed = Absent
    /\ last_len = -1

NatIdle ==
    /\ base_port = 0
    /\ probe_i = 0
    /\ results = <<>>
    /\ probes = <<>>
    /\ nat_type = ""
    /\ nat_pc = "idle"

UdpIdle ==
    /\ udp_main = "idle"
    /\ udp_proc = "idle"
    /\ udp_sock = "none"
    /\ stop_punch = FALSE
    /\ listen_pc = "unstarted"
    /\ listen_exit = ""
    /\ punch_pc = "unstarted"
    /\ udp_inbox = <<>>
    /\ arrived = <<>>
    /\ delivered = <<>>
    /\ udp_wire = <<>>

Sessions == {1, 2}

NoMessage == [payload |-> "", stopped |-> FALSE]

TcpIdle ==
    /\ t_main = [s \in Sessions |-> "idle"]
    /\ stop_event = [s \in Sessions |-> FALSE]
    /\ lst_pc = [s \in Sessions |-> "unstarted"]
    /\ lsock = [s \in Sessions |-> "none"]
    /\ backlog = [s \in Sessions |-> 0]
    /\ conn = [s \in Sessions |-> "none"]
    /\ pun_pc = [s \in Sessions |-> "unstarted"]
    /\ osock = [s \in Sessions |-> "none"]
    /\ last_sent = [s \in Sessions |-> NoMessage]
    /\ reuse_ok = FALSE
    /\ net_faults = FALSE

NoChoice == "<not asked>"

GateIdle ==
    /\ t_nat = [s \in Sessions |-> ""]
    /\ t_choice = [s \in Sessions |-> NoChoice]

NoCall == [message |-> "", ready |-> "", result |-> FALSE, printed |-> ""]

RtcIdle ==
    /\ rtc_state = "idle"
    /\ data_channel = "none"
    /\ connected = FALSE
    /\ ever_connected = FALSE
    /\ closing = FALSE
    /\ rtc_out = <<>>
    /\ last_send = NoCall

StunOnly == UNCHANGED <<natVars, udpVars, tcpVars, gateVars, rtcVars>>

NatOnly == UNCHANGED <<stunVars, udpVars, tcpVars, gateVars, rtcVars>>

UdpOnly == UNCHANGED <<stunVars, natVars, tcpVars, gateVars, rtcVars>>

TcpOnly == UNCHANGED <<stunVars, natVars, udpVars, gateVars, rtcVars>>

GateOnly ==
    UNCHANGED <<stunVars, natVars, udpVars, rtcVars, stop_event, lst_pc,
                lsock, backlog, conn, pun_pc, osock, last_sent, reuse_ok,
                net_faults>>

RtcOnly == UNCHANGED <<stunVars, natVars, udpVars, tcpVars, gateVars>>

Min(a, b) == IF a < b THEN a ELSE b

\* response[a:b] of Python: 0-based, half-open, clipped to the buffer.
Slice(s, a, b) == SubSeq(s, a + 1, Min(b, Len(s)))

\* struct.unpack('!H', two_bytes)[0]
U16(two) == two[1] * 256 + two[2]

\* struct.unpack('!H', b) raises struct.error unless b holds exactly 2 bytes.
CanUnpack(two) == Len(two) = 2

\* '.'.join(str(b) for b in ip_bytes)
RECURSIVE Dotted(_)
Dotted(ip_bytes) ==
    IF ip_bytes = <<>> THEN ""
    ELSE IF Len(ip_bytes) = 1 THEN ToString(ip_bytes[1])
    ELSE ToString(ip_bytes[1]) \o "." \o Dotted(Tail(ip_bytes))

(***************************************************************************)
(* One iteration of the scan loop of parse_stun_response, entered with     *)
(* offset < len(response).  The outcome is "break" (line 35), "return"     *)
(* (line 47), "next" with the offset of line 49, or "raise" when an        *)
(* unpack is handed a slice that is not 2 bytes long.                      *)
(***************************************************************************)
ScanOutcome(kind, value, off, len) ==
    [kind |-> kind, value |-> value, offset |-> off, len |-> len]

\* line 42: family = struct.unpack('!H', response[offset+5:offset+7])[0]
FamilySlice(resp, off) == Slice(resp, off + 5, off + 7)

\* lines 41-47, entered when attr_type == 0x0001 and attr_length >= 8;
\* "next" stands for falling through to line 49.
MappedAttrOutcome(resp, off, attr_length) ==
    IF off + 12 <= Len(resp)
    THEN IF ~CanUnpack(FamilySlice(resp, off))
         THEN ScanOutcome("raise", Absent, off, attr_length)
         ELSE IF U16(FamilySlice(resp, off)) = 1
         THEN IF ~CanUnpack(Slice(resp, off + 6, off + 8))
              THEN ScanOutcome("raise", Absent, off, attr_length)
              ELSE ScanOutcome("return",
                               Mapped(Dotted(Slice(resp, off + 8, off + 12)),
                                      U16(Slice(resp, off + 6, off + 8))),
                               off, attr_length)
         ELSE ScanOutcome("next", Absent, off + 4 + attr_length, attr_length)
    ELSE ScanOutcome("next", Absent, off + 4 + attr_length, attr_length)

\* ScanAttr without the guard of lines 34-35.
ScanAttrUnguarded(resp, off) ==
    IF \/ ~CanUnpack(Slice(resp, off, off + 2))
       \/ ~CanUnpack(Slice(resp, off + 2, off + 4))
    THEN ScanOutcome("raise", Absent, off, -1)
    ELSE LET attr_type   == U16(Slice(resp, off, off + 2))
             attr_length == U16(Slice(resp, off + 2, off + 4))
         IN  IF attr_type = 1 /\ attr_length >= 8
             THEN MappedAttrOutcome(resp, off, attr_length)
             ELSE ScanOutcome("next", Absent, off + 4 + attr_length,
                              attr_length)

\* lines 34-49
ScanAttr(resp, off) ==
    IF off + 4 > Len(resp)
    THEN ScanOutcome("break", Absent, off, -1)
    ELSE IF \/ ~CanUnpack(Slice(resp, off, off + 2))
            \/ ~CanUnpack(Slice(resp, off + 2, off + 4))
    THEN ScanOutcome("raise", Absent, off, -1)
    ELSE LET attr_type   == U16(Slice(resp, off, off + 2))
             attr_length == U16(Slice(resp, off + 2, off + 4))
         IN  IF attr_type = 1 /\ attr_length >= 8
             THEN MappedAttrOutcome(resp, off, attr_length)
             ELSE ScanOutcome("next", Absent, off + 4 + attr_length,
                              attr_length)

\* The whole loop, lines 33-51, from a given offset.
RECURSIVE ScanFrom(_, _)
ScanFrom(resp, off) ==
    IF off < Len(resp)
    THEN LET r == ScanAttr(resp, off)
         IN  CASE r.kind = "break"  -> Absent
               [] r.kind = "return" -> r.value
               [] r.kind = "raise"  -> Raised
               [] OTHER             -> ScanFrom(resp, r.offset)
    ELSE Absent

parse_stun_response(resp) ==
    IF Len(resp) < 20 THEN Absent ELSE ScanFrom(resp, 20)

(***************************************************************************)
(* STUN responses as a server puts them on the wire: a 20-byte header and  *)
(* attributes, each a 2-byte type, a 2-byte length and the value.          *)
(***************************************************************************)
Hi(n) == n \div 256

Lo(n) == n % 256

RespHeader(body_len) ==
    <<1, 1, Hi(body_len), Lo(body_len), 33, 18, 164, 66,
      7, 7, 7, 7, 7, 7, 7, 7, 7, 7, 7, 7>>

Attr(type, declared_len, value) ==
    <<Hi(type), Lo(type), Hi(declared_len), Lo(declared_len)>> \o value

\* MAPPED-ADDRESS: reserved byte, family byte, port, IPv4 address.
MappedAddressAttr(reserved, family, port, ip) ==
    Attr(1, 8, <<reserved, family, Hi(port), Lo(port)>> \o ip)

RECURSIVE Concat(_)
Concat(seqs) ==
    IF seqs = <<>> THEN <<>> ELSE Head(seqs) \o Concat(Tail(seqs))

EncodeResponse(attrs) ==
    LET body == Concat(attrs) IN RespHeader(Len(body)) \o body

IpA == <<203, 0, 113, 5>>

IpB == <<198, 51, 100, 7>>

\* (family byte, port) pairs of the sampled MAPPED-ADDRESS attributes.
FamilyPorts ==
    {<<1, 40000>>, <<1, 0>>, <<1, 65535>>, <<1, 256>>,
     <<0, 256>>, <<0, 300>>, <<2, 40000>>}

SampleAttrs ==
    {MappedAddressAttr(0, fp[1], fp[2], IpA) : fp \in FamilyPorts}
    \cup {MappedAddressAttr(0, 1, 40000, IpB)}
    \cup {Attr(32802, 0, <<>>),                       \* SOFTWARE, empty
          Attr(32, 8, <<0, 1, 189, 82, 234, 18, 213, 71>>), \* XOR-MAPPED
          Attr(1, 4, <<0, 1, 156, 64>>),              \* MAPPED, too short
          Attr(6, 65535, <<>>)}                       \* declared past the end

\* The most attributes a sampled response carries.
MaxAttrs == 2

RECURSIVE AttrSeqs(_)
AttrSeqs(n) ==
    IF n = 0 THEN {<<>>}
    ELSE LET shorter == AttrSeqs(n - 1)
         IN  shorter \cup {Append(s, a) : s \in shorter, a \in SampleAttrs}

\* Every sampled response, and every prefix of one (a truncated datagram).
Responses ==
    UNION {{SubSeq(full, 1, n) : n \in 0..Len(full)} :
              full \in {EncodeResponse(s) : s \in AttrSeqs(MaxAttrs)}}

(***************************************************************************)
(* parse_stun_response, one loop iteration per step.                       *)
(***************************************************************************)
StunInit ==
    /\ response \in Responses
    /\ offset = 0
    /\ parse_pc = "entry"
    /\ parsed = Absent
    /\ last_len = -1
    /\ NatIdle
    /\ UdpIdle
    /\ TcpIdle
    /\ GateIdle
    /\ RtcIdle

\* lines 29-32: the length check, then offset = 20.
ParseEnter ==
    /\ parse_pc = "entry"
    /\ IF Len(response) < 20
       THEN /\ parse_pc' = "done"
            /\ offset' = offset
       ELSE /\ parse_pc' = "scan"
            /\ offset' = 20
    /\ parsed' = Absent
    /\ UNCHANGED <<response, last_len>>
    /\ StunOnly

\* lines 33-49: one iteration of the while loop.
ParseScan ==
    /\ parse_pc = "scan"
    /\ offset < Len(response)
    /\ LET r == ScanAttr(response, offset)
       IN  /\ offset' = r.offset
           /\ last_len' = r.len
           /\ parsed' = r.value
           /\ parse_pc' = CASE r.kind = "next"  -> "scan"
                           [] r.kind = "raise" -> "raised"
                           [] OTHER            -> "done"
    /\ UNCHANGED response
    /\ StunOnly

\* line 51: the loop condition fails.
ParseExhausted ==
    /\ parse_pc = "scan"
    /\ offset >= Len(response)
    /\ parse_pc' = "done"
    /\ parsed' = Absent
    /\ UNCHANGED <<response, offset, last_len>>
    /\ StunOnly

StunNext == ParseEnter \/ ParseScan \/ ParseExhausted

(***************************************************************************)
(* NATDetector.get_mapped_address: what one call does, given what the      *)
(* network and the OS do to it.  env.step names the call that raises       *)
(* ("socket", "bind", "sendto", "recvfrom") or is "reply" with the         *)
(* datagram received.  The value is what the call returns, with the        *)
(* number of binding requests sent and whether the socket it created was   *)
(* closed by the function (line 66) before returning.                      *)
(***************************************************************************)
ProbeOutcome(value, sent, created, closed) ==
    [value |-> value, sent |-> sent, created |-> created, closed |-> closed]

\* get_mapped_address with a second request after a receive timeout.
get_mapped_address_retrying(env) ==
    CASE env.step = "socket"   -> ProbeOutcome(Absent, 0, FALSE, FALSE)
      [] env.step = "bind"     -> ProbeOutcome(Absent, 0, TRUE, FALSE)
      [] env.step = "sendto"   -> ProbeOutcome(Absent, 0, TRUE, FALSE)
      [] env.step = "recvfrom" -> ProbeOutcome(Absent, 2, TRUE, FALSE)
      [] OTHER ->
            LET r == parse_stun_response(env.reply)
            IN  IF r = Raised
                THEN ProbeOutcome(Absent, 1, TRUE, FALSE)
                ELSE ProbeOutcome(r, 1, TRUE, TRUE)

\* lines 53-69
get_mapped_address(env) ==
    CASE env.step = "socket"   -> ProbeOutcome(Absent, 0, FALSE, FALSE)
      [] env.step = "bind"     -> ProbeOutcome(Absent, 0, TRUE, FALSE)
      [] env.step = "sendto"   -> ProbeOutcome(Absent, 0, TRUE, FALSE)
      [] env.step = "recvfrom" -> ProbeOutcome(Absent, 1, TRUE, FALSE)
      [] OTHER ->
            LET r == parse_stun_response(env.reply)
            IN  IF r = Raised
                THEN ProbeOutcome(Absent, 1, TRUE, FALSE)
                ELSE ProbeOutcome(r, 1, TRUE, TRUE)

\* How far above 299 the sampled mapped ports reach.
MaxPortSpread == 3

\* Mapped ports a reply may carry; with the family byte 0 their high byte
\* 0x01 is what line 42 reads as the family.
NatPorts == 299..(299 + MaxPortSpread) \cup {350}

ProbeReplies ==
    {EncodeResponse(<<MappedAddressAttr(0, 0, port, ip)>>) :
        port \in NatPorts, ip \in {IpA, IpB}}
    \cup {EncodeResponse(<<MappedAddressAttr(0, 1, 40000, IpA)>>),
          SubSeq(EncodeResponse(<<MappedAddressAttr(0, 1, 40000, IpA)>>),
                 1, 19)}

ProbeEnvs ==
    {[step |-> st, reply |-> <<>>] :
        st \in {"socket", "bind", "sendto", "recvfrom"}}
    \cup {[step |-> "reply", reply |-> b] : b \in ProbeReplies}

(***************************************************************************)
(* NATDetector.detect_nat_type                                             *)
(***************************************************************************)
UNKNOWN == "UNKNOWN - Not enough STUN responses"

SYMMETRIC_IPS == "SYMMETRIC NAT - Different external IPs (Very hard to punch)"

FULL_CONE == "FULL CONE NAT - Easy to punch"

PORT_RESTRICTED == "PORT RESTRICTED NAT - Moderate difficulty"

SYMMETRIC_PORTS == "SYMMETRIC NAT - Different ports (Hard to punch)"

ADDRESS_RESTRICTED == "ADDRESS RESTRICTED NAT - Moderate difficulty"

\* random.randint(10000, 50000), line 75
BasePortMin == 10000

BasePortMax == 50000

BasePorts == {BasePortMin, BasePortMin + 1, BasePortMax}

\* self.stun_servers[:3], line 78
ServersProbed == 3

\* `if ip and port`, line 83: None, "" and 0 are false.
Truthy(r) == r.some /\ r.ip # "" /\ r.port # 0

\* port_diff alone, without the local_diff of line 104.
PortDiffsNoLocal(res) ==
    [k \in 1..(Len(res) - 1) |-> res[k + 1][2] - res[k][2]]

\* lines 101-105
PortDiffs(res) ==
    [k \in 1..(Len(res) - 1) |->
        (res[k + 1][2] - res[k][2]) - (res[k + 1][3] - res[k][3])]

\* Analysis with `diff >= 0` for the `diff > 0` of line 110.
AnalysisNonNegative(res) ==
    LET external_ips   == {res[k][1] : k \in 1..Len(res)}
        external_ports == [k \in 1..Len(res) |-> res[k][2]]
        port_diffs     == PortDiffs(res)
    IN  IF Cardinality(external_ips) > 1 THEN SYMMETRIC_IPS
        ELSE IF \A k \in DOMAIN port_diffs : port_diffs[k] = 0
        THEN FULL_CONE
        ELSE IF Cardinality({external_ports[k] : k \in 1..Len(res)})
                   = Len(external_ports)
        THEN IF \A k \in DOMAIN port_diffs : port_diffs[k] >= 0
             THEN PORT_RESTRICTED
             ELSE SYMMETRIC_PORTS
        ELSE ADDRESS_RESTRICTED

\* lines 92-115: the analysis of at least two successful probes.
Analysis(res) ==
    LET external_ips   == {res[k][1] : k \in 1..Len(res)}
        external_ports == [k \in 1..Len(res) |-> res[k][2]]
        port_diffs     == PortDiffs(res)
    IN  IF Cardinality(external_ips) > 1 THEN SYMMETRIC_IPS
        ELSE IF \A k \in DOMAIN port_diffs : port_diffs[k] = 0
        THEN FULL_CONE
        ELSE IF Cardinality({external_ports[k] : k \in 1..Len(res)})
                   = Len(external_ports)
        THEN IF \A k \in DOMAIN port_diffs : port_diffs[k] > 0
             THEN PORT_RESTRICTED
             ELSE SYMMETRIC_PORTS
        ELSE ADDRESS_RESTRICTED

\* Classify with `<= 2` for the `< 2` of line 89.
ClassifyOffByOne(res) ==
    IF Len(res) <= 2 THEN UNKNOWN ELSE Analysis(res)

\* lines 89-115: the value returned for the list of successful probes.
Classify(res) ==
    IF Len(res) < 2 THEN UNKNOWN ELSE Analysis(res)

NatInit ==
    /\ base_port \in BasePorts
    /\ probe_i = 0
    /\ results = <<>>
    /\ probes = <<>>
    /\ nat_type = ""
    /\ nat_pc = "probing"
    /\ StunIdle
    /\ UdpIdle
    /\ TcpIdle
    /\ GateIdle
    /\ RtcIdle

\* lines 78-87: one iteration of the for loop.
Probe ==
    /\ nat_pc = "probing"
    /\ probe_i < ServersProbed
    /\ \E env \in ProbeEnvs :
          LET local_port == base_port + probe_i
              out        == get_mapped_address(env)
          IN  /\ results' =
                    IF Truthy(out.value)
                    THEN Append(results,
                                <<out.value.ip, out.value.port, local_port>>)
                    ELSE results
              /\ probes' = Append(probes,
                                  [server     |-> probe_i + 1,
                                   local_port |-> local_port,
                                   step       |-> env.step,
                                   outcome    |-> out])
    /\ probe_i' = probe_i + 1
    /\ UNCHANGED <<base_port, nat_type, nat_pc>>
    /\ NatOnly

\* lines 89-115, after the loop.
Analyze ==
    /\ nat_pc = "probing"
    /\ probe_i = ServersProbed
    /\ nat_type' = Classify(results)
    /\ nat_pc' = "done"
    /\ UNCHANGED <<base_port, probe_i, results, probes>>
    /\ NatOnly

NatNext == Probe \/ Analyze

(***************************************************************************)
(* The UDP hole puncher, src/hole_punch.py: main and the two daemon        *)
(* threads listen and punch, sharing one socket.                           *)
(***************************************************************************)
HOLE_PUNCH == "HOLE_PUNCH"

\* A payload that is not valid UTF-8: data.decode() raises on it.
InvalidUtf8 == "<0xff>"

\* What the peer and the network may deliver to the socket.
InboundPayloads == {HOLE_PUNCH, "hi", InvalidUtf8}

\* What the user may type at the prompt of line 56.
UserInputs == {"quit", "QUIT", "exit", "hi"}

\* msg.lower()
UpperCase == "ABCDEFGHIJKLMNOPQRSTUVWXYZ"

LowerCase == "abcdefghijklmnopqrstuvwxyz"

LowerChar(ch) ==
    IF \E i \in 1..Len(UpperCase) : SubSeq(UpperCase, i, i) = ch
    THEN LET i == CHOOSE i \in 1..Len(UpperCase) :
                      SubSeq(UpperCase, i, i) = ch
         IN  SubSeq(LowerCase, i, i)
    ELSE ch

RECURSIVE Lower(_)
Lower(msg) ==
    IF Len(msg) = 0 THEN msg
    ELSE LowerChar(SubSeq(msg, 1, 1)) \o Lower(SubSeq(msg, 2, Len(msg)))

\* The most datagrams the network delivers in one run.
MaxArrivals == 2

\* The most sent datagrams the model keeps a record of.
MaxWire == 3

\* A record of a datagram sent, kept while the record has room.
Sent(payload, by) ==
    IF Len(udp_wire) < MaxWire
    THEN Append(udp_wire,
                [payload |-> payload, by |-> by, stopped |-> stop_punch])
    ELSE udp_wire

UdpInit ==
    /\ udp_main = "socket"
    /\ udp_proc = "running"
    /\ udp_sock = "none"
    /\ stop_punch = FALSE
    /\ listen_pc = "unstarted"
    /\ listen_exit = ""
    /\ punch_pc = "unstarted"
    /\ udp_inbox = <<>>
    /\ arrived = <<>>
    /\ delivered = <<>>
    /\ udp_wire = <<>>
    /\ StunIdle
    /\ NatIdle
    /\ TcpIdle
    /\ GateIdle
    /\ RtcIdle

\* lines 31-32: socket() and bind(); bind raises when the port is taken.
MainBind ==
    /\ udp_proc = "running"
    /\ udp_main = "socket"
    /\ \E ok \in BOOLEAN :
          /\ udp_main' = IF ok THEN "spawn_listen" ELSE "raised"
          /\ udp_sock' = "open"
    /\ UNCHANGED <<udp_proc, stop_punch, listen_pc, listen_exit, punch_pc,
                   udp_inbox, arrived, delivered, udp_wire>>
    /\ UdpOnly

\* line 35
MainStartListen ==
    /\ udp_proc = "running"
    /\ udp_main = "spawn_listen"
    /\ udp_main' = "spawn_punch"
    /\ listen_pc' = "recv"
    /\ UNCHANGED <<udp_proc, udp_sock, stop_punch, listen_exit, punch_pc,
                   udp_inbox, arrived, delivered, udp_wire>>
    /\ UdpOnly

\* lines 38-46
MainStartPunch ==
    /\ udp_proc = "running"
    /\ udp_main = "spawn_punch"
    /\ udp_main' = "window"
    /\ stop_punch' = FALSE
    /\ punch_pc' = "check"
    /\ UNCHANGED <<udp_proc, udp_sock, listen_pc, listen_exit, udp_inbox,
                   arrived, delivered, udp_wire>>
    /\ UdpOnly

\* line 49: time.sleep(10) returns.
MainWindowElapsed ==
    /\ udp_proc = "running"
    /\ udp_main = "window"
    /\ udp_main' = "set_stop"
    /\ UNCHANGED <<udp_proc, udp_sock, stop_punch, listen_pc, listen_exit,
                   punch_pc, udp_inbox, arrived, delivered, udp_wire>>
    /\ UdpOnly

\* lines 50-52
MainSetStop ==
    /\ udp_proc = "running"
    /\ udp_main = "set_stop"
    /\ stop_punch' = TRUE
    /\ udp_main' = "relay"
    /\ UNCHANGED <<udp_proc, udp_sock, listen_pc, listen_exit, punch_pc,
                   udp_inbox, arrived, delivered, udp_wire>>
    /\ UdpOnly

\* line 57: the input that ends the relay loop.
IsQuit(msg) == Lower(msg) = "quit"

\* lines 55-59: one pass of the relay loop; sendto may raise.
MainRelay ==
    /\ udp_proc = "running"
    /\ udp_main = "relay"
    /\ \E msg \in UserInputs :
          IF IsQuit(msg)
          THEN /\ udp_main' = "close"
               /\ UNCHANGED udp_wire
          ELSE \E ok \in BOOLEAN :
                  IF ok /\ udp_sock = "open"
                  THEN /\ udp_wire' = Sent(msg, "main")
                       /\ udp_main' = "relay"
                  ELSE /\ udp_main' = "raised"
                       /\ UNCHANGED udp_wire
    /\ UNCHANGED <<udp_proc, udp_sock, stop_punch, listen_pc, listen_exit,
                   punch_pc, udp_inbox, arrived, delivered>>
    /\ UdpOnly

\* line 61
MainClose ==
    /\ udp_proc = "running"
    /\ udp_main = "close"
    /\ udp_sock' = "closed"
    /\ udp_main' = "returned"
    /\ UNCHANGED <<udp_proc, stop_punch, listen_pc, listen_exit, punch_pc,
                   udp_inbox, arrived, delivered, udp_wire>>
    /\ UdpOnly

\* main has returned or raised: the interpreter exits and the daemon
\* threads (daemon=True, lines 35 and 41) end with it.
ProcessExit ==
    /\ udp_proc = "running"
    /\ udp_main \in {"returned", "raised"}
    /\ udp_proc' = "exited"
    /\ UNCHANGED <<udp_main, udp_sock, stop_punch, listen_pc, listen_exit,
                   punch_pc, udp_inbox, arrived, delivered, udp_wire>>
    /\ UdpOnly

\* listen without the filter of line 12.
DisplayedAll(message) == TRUE

\* line 12: what listen shows to the user.
Displayed(message) == message # HOLE_PUNCH

\* lines 9-13: recvfrom returns a datagram.
ListenRecv ==
    /\ udp_proc = "running"
    /\ listen_pc = "recv"
    /\ udp_sock = "open"
    /\ udp_inbox # <<>>
    /\ LET data == Head(udp_inbox)
       IN  IF data = InvalidUtf8
           THEN /\ listen_pc' = "done"
                /\ listen_exit' = "decode"
                /\ UNCHANGED delivered
           ELSE /\ delivered' = IF Displayed(data)
                                 THEN Append(delivered, data)
                                 ELSE delivered
                /\ UNCHANGED <<listen_pc, listen_exit>>
    /\ udp_inbox' = Tail(udp_inbox)
    /\ UNCHANGED <<udp_main, udp_proc, udp_sock, stop_punch, punch_pc,
                   arrived, udp_wire>>
    /\ UdpOnly

\* lines 14-16: recvfrom raises (the socket was closed under it, or the
\* OS reports an error on the socket).
ListenRecvError ==
    /\ udp_proc = "running"
    /\ listen_pc = "recv"
    /\ listen_pc' = "done"
    /\ listen_exit' = "recv"
    /\ UNCHANGED <<udp_main, udp_proc, udp_sock, stop_punch, punch_pc,
                   udp_inbox, arrived, delivered, udp_wire>>
    /\ UdpOnly

\* line 21: while not stop_event.is_set()
PunchContinues == ~stop_punch

\* lines 21 and 28
PunchCheck ==
    /\ udp_proc = "running"
    /\ punch_pc = "check"
    /\ punch_pc' = IF PunchContinues THEN "send" ELSE "done"
    /\ UNCHANGED <<udp_main, udp_proc, udp_sock, stop_punch, listen_pc,
                   listen_exit, udp_inbox, arrived, delivered, udp_wire>>
    /\ UdpOnly

\* lines 23, 25-27: sendto, which raises on a closed socket or an OS error.
PunchSend ==
    /\ udp_proc = "running"
    /\ punch_pc = "send"
    /\ \E ok \in BOOLEAN :
          IF ok /\ udp_sock = "open"
          THEN /\ udp_wire' = Sent(HOLE_PUNCH, "punch")
               /\ punch_pc' = "sleep"
          ELSE /\ punch_pc' = "done"
               /\ UNCHANGED udp_wire
    /\ UNCHANGED <<udp_main, udp_proc, udp_sock, stop_punch, listen_pc,
                   listen_exit, udp_inbox, arrived, delivered>>
    /\ UdpOnly

\* line 24: time.sleep(1) returns.
PunchWake ==
    /\ udp_proc = "running"
    /\ punch_pc = "sleep"
    /\ punch_pc' = "check"
    /\ UNCHANGED <<udp_main, udp_proc, udp_sock, stop_punch, listen_pc,
                   listen_exit, udp_inbox, arrived, delivered, udp_wire>>
    /\ UdpOnly

\* The network hands a datagram to the bound socket.
Arrive ==
    /\ udp_proc = "running"
    /\ udp_sock = "open"
    /\ udp_main # "raised"
    /\ Len(arrived) < MaxArrivals
    /\ \E data \in InboundPayloads :
          /\ udp_inbox' = Append(udp_inbox, data)
          /\ arrived' = Append(arrived, data)
    /\ UNCHANGED <<udp_main, udp_proc, udp_sock, stop_punch, listen_pc,
                   listen_exit, punch_pc, delivered, udp_wire>>
    /\ UdpOnly

UdpNext ==
    \/ MainBind \/ MainStartListen \/ MainStartPunch \/ MainWindowElapsed
    \/ MainSetStop \/ MainRelay \/ MainClose \/ ProcessExit
    \/ ListenRecv \/ ListenRecvError
    \/ PunchCheck \/ PunchSend \/ PunchWake
    \/ Arrive

(***************************************************************************)
(* The TCP hole puncher, src/test.py: per session main, the daemon         *)
(* threads tcp_listen and tcp_punch, and the handle_tcp_connection         *)
(* threads they start.  Two sessions run the program, each with the        *)
(* other's port as peer port.  A handle_tcp_connection thread runs         *)
(* exactly while its socket is "open" (accepted) or "connected"            *)
(* (outbound): it is started with the socket and closes it when it ends.   *)
(***************************************************************************)
Peer(s) == 3 - s

\* server.listen(1), line 123
Backlog == 1

\* What the user may type at the prompt of line 187.
TcpUserInputs == {"quit", "QUIT", "exit", "hi"}

\* The threads of a session run until its interpreter has exited.
Running(s) == t_main[s] # "exited"

\* Whether a call may fail for a reason outside the program.
Faults == IF net_faults THEN BOOLEAN ELSE {FALSE}

TcpInit ==
    /\ t_main = [s \in Sessions |-> "start_listen"]
    /\ stop_event = [s \in Sessions |-> FALSE]
    /\ lst_pc = [s \in Sessions |-> "unstarted"]
    /\ lsock = [s \in Sessions |-> "none"]
    /\ backlog = [s \in Sessions |-> 0]
    /\ conn = [s \in Sessions |-> "none"]
    /\ pun_pc = [s \in Sessions |-> "unstarted"]
    /\ osock = [s \in Sessions |-> "none"]
    /\ last_sent = [s \in Sessions |-> NoMessage]
    /\ reuse_ok \in BOOLEAN
    /\ net_faults \in BOOLEAN
    /\ t_nat = [s \in Sessions |-> FULL_CONE]
    /\ t_choice = [s \in Sessions |-> NoChoice]
    /\ StunIdle
    /\ NatIdle
    /\ UdpIdle
    /\ RtcIdle

\* lines 241-248: the stop event, the listener thread, the 1 s sleep.
TcpStartListen(s) ==
    /\ t_main[s] = "start_listen"
    /\ t_main' = [t_main EXCEPT ![s] = "ready"]
    /\ lst_pc' = [lst_pc EXCEPT ![s] = "setup"]
    /\ UNCHANGED <<stop_event, lsock, backlog, conn, pun_pc, osock,
                   last_sent, reuse_ok, net_faults>>
    /\ TcpOnly

\* lines 250-254: the user presses Enter, the punch thread starts.
TcpStartPunch(s) ==
    /\ t_main[s] = "ready"
    /\ t_main' = [t_main EXCEPT ![s] = "join"]
    /\ pun_pc' = [pun_pc EXCEPT ![s] = "retry"]
    /\ UNCHANGED <<stop_event, lst_pc, lsock, backlog, conn, osock,
                   last_sent, reuse_ok, net_faults>>
    /\ TcpOnly

\* line 258: punch_thread.join() returns.
TcpJoined(s) ==
    /\ t_main[s] = "join"
    /\ pun_pc[s] = "done"
    /\ t_main' = [t_main EXCEPT ![s] = "returned"]
    /\ UNCHANGED <<stop_event, lst_pc, lsock, backlog, conn, pun_pc, osock,
                   last_sent, reuse_ok, net_faults>>
    /\ TcpOnly

\* lines 259-261: Ctrl-C while main waits in join.
TcpInterrupt(s) ==
    /\ t_main[s] = "join"
    /\ stop_event' = [stop_event EXCEPT ![s] = TRUE]
    /\ t_main' = [t_main EXCEPT ![s] = "returned"]
    /\ UNCHANGED <<lst_pc, lsock, backlog, conn, pun_pc, osock,
                   last_sent, reuse_ok, net_faults>>
    /\ TcpOnly

\* main has returned: the interpreter exits and its daemon threads
\* (daemon=True, lines 134, 183, 244, 253) end with it.
TcpProcessExit(s) ==
    /\ t_main[s] = "returned"
    /\ t_main' = [t_main EXCEPT ![s] = "exited"]
    /\ UNCHANGED <<stop_event, lst_pc, lsock, backlog, conn, pun_pc, osock,
                   last_sent, reuse_ok, net_faults>>
    /\ TcpOnly

\* lines 119-126 and 146-147: socket, bind, listen; a failure is caught at
\* line 146 and the function returns.
TcpListenSetup(s) ==
    /\ Running(s)
    /\ lst_pc[s] = "setup"
    /\ \E fault \in Faults :
          IF fault
          THEN /\ lsock' = [lsock EXCEPT ![s] = "open"]
               /\ lst_pc' = [lst_pc EXCEPT ![s] = "done"]
          ELSE /\ lsock' = [lsock EXCEPT ![s] = "listening"]
               /\ lst_pc' = [lst_pc EXCEPT ![s] = "accept"]
    /\ UNCHANGED <<t_main, stop_event, backlog, conn, pun_pc, osock,
                   last_sent, reuse_ok, net_faults>>
    /\ TcpOnly

\* lines 128-144, one turn of the loop: the test of the stop event, then
\* one accept poll of at most 1 s.  A pending connection is accepted and
\* handed to a handle_tcp_connection thread (break); a timeout continues
\* the loop; another error breaks.  After the loop server.close() resets
\* what is still queued.
TcpListenPoll(s) ==
    /\ Running(s)
    /\ lst_pc[s] = "accept"
    /\ \E fault \in Faults :
          IF stop_event[s] \/ fault
          THEN /\ lsock' = [lsock EXCEPT ![s] = "closed"]
               /\ backlog' = [backlog EXCEPT ![s] = 0]
               /\ lst_pc' = [lst_pc EXCEPT ![s] = "done"]
               /\ UNCHANGED conn
          ELSE IF backlog[s] > 0
          THEN /\ conn' = [conn EXCEPT ![s] = "open"]
               /\ lsock' = [lsock EXCEPT ![s] = "closed"]
               /\ backlog' = [backlog EXCEPT ![s] = 0]
               /\ lst_pc' = [lst_pc EXCEPT ![s] = "done"]
          ELSE UNCHANGED <<conn, lsock, backlog, lst_pc>>
    /\ UNCHANGED <<t_main, stop_event, pun_pc, osock, last_sent, reuse_ok,
                   net_faults>>
    /\ TcpOnly

\* lines 149-163 on the accepted connection: recv returns b"" or raises
\* (the peer closed its end, or a fault), and the finally closes conn.
TcpAcceptedReaderEnds(s) ==
    /\ Running(s)
    /\ conn[s] = "open"
    /\ \/ net_faults
       \/ osock[Peer(s)] # "connected"
       \/ ~Running(Peer(s))
    /\ conn' = [conn EXCEPT ![s] = "closed"]
    /\ UNCHANGED <<t_main, stop_event, lst_pc, lsock, backlog, pun_pc,
                   osock, last_sent, reuse_ok, net_faults>>
    /\ TcpOnly

\* Whether bind(('0.0.0.0', local_port)) of line 174 succeeds: with
\* SO_REUSEADDR alone the OS may refuse the port of a listening socket.
BindSucceeds(s) == reuse_ok \/ lsock[s] # "listening"

\* lines 169-175 and 199-202, one turn of the loop up to the connect: the
\* test of the stop event, then a new socket bound to the local port; a
\* failure is caught at line 199 and the loop goes on after 0.1 s.
TcpPunchAttempt(s) ==
    /\ Running(s)
    /\ pun_pc[s] = "retry"
    /\ IF stop_event[s]
       THEN /\ pun_pc' = [pun_pc EXCEPT ![s] = "done"]
            /\ UNCHANGED osock
       ELSE /\ osock' = [osock EXCEPT ![s] = "open"]
            /\ \E fault \in Faults :
                  pun_pc' = [pun_pc EXCEPT ![s] =
                               IF BindSucceeds(s) /\ ~fault
                               THEN "connect" ELSE "retry"]
    /\ UNCHANGED <<t_main, stop_event, lst_pc, lsock, backlog, conn,
                   last_sent, reuse_ok, net_faults>>
    /\ TcpOnly

\* The peer's listener takes the connection: it listens and has room.
PeerTakes(s) ==
    /\ Running(Peer(s))
    /\ lsock[Peer(s)] = "listening"
    /\ backlog[Peer(s)] < Backlog

\* lines 178-197: connect_ex; 0 starts the relay (and the
\* handle_tcp_connection thread on the socket), anything else closes the
\* socket and retries after 0.1 s.
TcpPunchConnect(s) ==
    /\ Running(s)
    /\ pun_pc[s] = "connect"
    /\ \E fault \in Faults :
          IF PeerTakes(s) /\ ~fault
          THEN /\ osock' = [osock EXCEPT ![s] = "connected"]
               /\ backlog' = [backlog EXCEPT ![Peer(s)] = @ + 1]
               /\ pun_pc' = [pun_pc EXCEPT ![s] = "relay_check"]
          ELSE /\ osock' = [osock EXCEPT ![s] = "closed"]
               /\ pun_pc' = [pun_pc EXCEPT ![s] = "retry"]
               /\ UNCHANGED backlog
    /\ UNCHANGED <<t_main, stop_event, lst_pc, lsock, conn, last_sent,
                   reuse_ok, net_faults>>
    /\ TcpOnly

\* lines 186 and 193-194: while not stop_event.is_set(); after the loop
\* sock.close() and return.
TcpRelayCheck(s) ==
    /\ Running(s)
    /\ pun_pc[s] = "relay_check"
    /\ IF stop_event[s]
       THEN /\ pun_pc' = [pun_pc EXCEPT ![s] = "done"]
            /\ osock' = [osock EXCEPT ![s] = "closed"]
       ELSE /\ pun_pc' = [pun_pc EXCEPT ![s] = "input"]
            /\ UNCHANGED osock
    /\ UNCHANGED <<t_main, stop_event, lst_pc, lsock, backlog, conn,
                   last_sent, reuse_ok, net_faults>>
    /\ TcpOnly

\* line 188
TcpIsQuit(msg) == Lower(msg) = "quit"

\* lines 187-194 and 199-200: input() returns a line; quit sets the event,
\* breaks, closes the socket and returns; anything else is sent.  send
\* raises on a socket that is no longer connected, which line 199 catches:
\* back to the loop of line 169.
TcpRelayInput(s) ==
    /\ Running(s)
    /\ pun_pc[s] = "input"
    /\ \E msg \in TcpUserInputs :
          IF TcpIsQuit(msg)
          THEN /\ stop_event' = [stop_event EXCEPT ![s] = TRUE]
               /\ osock' = [osock EXCEPT ![s] = "closed"]
               /\ pun_pc' = [pun_pc EXCEPT ![s] = "done"]
               /\ UNCHANGED last_sent
          ELSE IF osock[s] = "connected"
          THEN /\ last_sent' = [last_sent EXCEPT ![s] =
                     [payload |-> msg, stopped |-> stop_event[s]]]
               /\ pun_pc' = [pun_pc EXCEPT ![s] = "relay_check"]
               /\ UNCHANGED <<stop_event, osock>>
          ELSE /\ pun_pc' = [pun_pc EXCEPT ![s] = "retry"]
               /\ UNCHANGED <<stop_event, osock, last_sent>>
    /\ UNCHANGED <<t_main, lst_pc, lsock, backlog, conn, reuse_ok,
                   net_faults>>
    /\ TcpOnly

\* lines 149-163 on the outbound socket, which keeps the 1 s timeout of
\* line 175: recv times out (the peer's accepted side never sends),
\* returns b"" or raises, and the finally closes the socket.
TcpOutboundReaderEnds(s) ==
    /\ Running(s)
    /\ osock[s] = "connected"
    /\ osock' = [osock EXCEPT ![s] = "closed"]
    /\ UNCHANGED <<t_main, stop_event, lst_pc, lsock, backlog, conn,
                   pun_pc, last_sent, reuse_ok, net_faults>>
    /\ TcpOnly

TcpNext ==
    \E s \in Sessions :
        \/ TcpStartListen(s) \/ TcpStartPunch(s) \/ TcpJoined(s)
        \/ TcpInterrupt(s) \/ TcpProcessExit(s)
        \/ TcpListenSetup(s) \/ TcpListenPoll(s)
        \/ TcpAcceptedReaderEnds(s)
        \/ TcpPunchAttempt(s) \/ TcpPunchConnect(s)
        \/ TcpRelayCheck(s) \/ TcpRelayInput(s)
        \/ TcpOutboundReaderEnds(s)

(***************************************************************************)
(* main of src/test.py before the tasks, lines 214-235: the NAT            *)
(* classification, the gate on a symmetric NAT, the external address.      *)
(* One session is followed from its first line; its peer is not running.   *)
(***************************************************************************)
\* What detect_nat_type returns (lines 90, 98, 108, 111, 113, 115).
NatTypes ==
    {UNKNOWN, SYMMETRIC_IPS, FULL_CONE, PORT_RESTRICTED, SYMMETRIC_PORTS,
     ADDRESS_RESTRICTED}

\* What the user may answer at line 222.
GateChoices == {"y", "Y", "n", "yes", ""}

\* `sub in str`
Contains(sub, str) ==
    \E i \in 1..(Len(str) - Len(sub) + 1) :
        SubSeq(str, i, i + Len(sub) - 1) = sub

\* line 219
WarnsSymmetric(nat) == Contains("SYMMETRIC", nat)

\* Every answer but "n" taken as a confirmation.
ConfirmedUnlessNo(choice) == Lower(choice) # "n"

\* line 223, negated: the answer with which main goes on.
Confirmed(choice) == Lower(choice) = "y"

GateInit ==
    /\ t_main = [s \in Sessions |-> IF s = 1 THEN "classify" ELSE "idle"]
    /\ stop_event = [s \in Sessions |-> FALSE]
    /\ lst_pc = [s \in Sessions |-> "unstarted"]
    /\ lsock = [s \in Sessions |-> "none"]
    /\ backlog = [s \in Sessions |-> 0]
    /\ conn = [s \in Sessions |-> "none"]
    /\ pun_pc = [s \in Sessions |-> "unstarted"]
    /\ osock = [s \in Sessions |-> "none"]
    /\ last_sent = [s \in Sessions |-> NoMessage]
    /\ reuse_ok \in BOOLEAN
    /\ net_faults \in BOOLEAN
    /\ t_nat = [s \in Sessions |-> ""]
    /\ t_choice = [s \in Sessions |-> NoChoice]
    /\ StunIdle
    /\ NatIdle
    /\ UdpIdle
    /\ RtcIdle

\* lines 215-221: the classification returns; a symmetric NAT brings the
\* warning and the question.
TcpClassify(s) ==
    /\ t_main[s] = "classify"
    /\ \E nat \in NatTypes :
          /\ t_nat' = [t_nat EXCEPT ![s] = nat]
          /\ t_main' = [t_main EXCEPT ![s] =
                          IF WarnsSymmetric(nat) THEN "gate" ELSE "external"]
    /\ UNCHANGED t_choice
    /\ GateOnly

\* lines 222-224: the answer; anything but y returns from main.
TcpGate(s) ==
    /\ t_main[s] = "gate"
    /\ \E choice \in GateChoices :
          /\ t_choice' = [t_choice EXCEPT ![s] = choice]
          /\ t_main' = [t_main EXCEPT ![s] =
                          IF Confirmed(choice) THEN "external" ELSE "returned"]
    /\ UNCHANGED t_nat
    /\ GateOnly

\* lines 227-238: the external address is asked for and printed.
TcpExternal(s) ==
    /\ t_main[s] = "external"
    /\ t_main' = [t_main EXCEPT ![s] = "start_listen"]
    /\ UNCHANGED <<t_nat, t_choice>>
    /\ GateOnly

\* With no peer running nothing connects and tcp_punch returns only after
\* Ctrl-C: the actions of a session that can be taken are those of main
\* (but for the return of join) and of the two tasks up to the connect.
GateNext ==
    \E s \in Sessions :
        \/ TcpClassify(s) \/ TcpGate(s) \/ TcpExternal(s)
        \/ TcpStartListen(s) \/ TcpStartPunch(s)
        \/ TcpInterrupt(s) \/ TcpProcessExit(s)
        \/ TcpListenSetup(s) \/ TcpListenPoll(s)
        \/ TcpPunchAttempt(s) \/ TcpPunchConnect(s)

(***************************************************************************)
(* WebRTCChat, src/pytest.py: the object, the event handlers it registers  *)
(* on the peer connection and on the data channel, send_message and        *)
(* close.  The library raises the events; the peer connection follows the  *)
(* connection states new, connecting, connected, disconnected, failed,     *)
(* closed, where closed follows only a call of close.                      *)
(***************************************************************************)
\* What the user may have typed for send_message.
RtcMessages == {"hi", ""}

\* The most messages handed to the channel the model keeps a record of.
MaxRtcOut == 2

NOT_CONNECTED == "Not connected"

SENT == "Sent"

SEND_ERROR == "Error sending message"

\* The connection states that may follow st.
StatesAfter(st) ==
    (CASE st = "new"          -> {"connecting"}
       [] st = "connecting"   -> {"connected", "failed"}
       [] st = "connected"    -> {"disconnected", "failed"}
       [] st = "disconnected" -> {"connected", "failed"}
       [] OTHER               -> {})
    \cup (IF closing /\ st # "closed" THEN {"closed"} ELSE {})

\* lines 57-65: self.connected after the handler has run on state.
on_connectionstatechange(state, was) ==
    IF state = "connected" THEN TRUE
    ELSE IF state \in {"failed", "closed", "disconnected"} THEN FALSE
    ELSE was

RtcInit ==
    /\ rtc_state = "new"
    /\ data_channel = "none"
    /\ connected = FALSE
    /\ ever_connected = FALSE
    /\ closing = FALSE
    /\ rtc_out = <<>>
    /\ last_send = NoCall
    /\ StunIdle
    /\ NatIdle
    /\ UdpIdle
    /\ TcpIdle
    /\ GateIdle

\* lines 55-65: the connection state changes and the handler runs.
RtcStateChange ==
    /\ \E state \in StatesAfter(rtc_state) :
          /\ rtc_state' = state
          /\ connected' = on_connectionstatechange(state, connected)
    /\ ever_connected' = (ever_connected \/ connected')
    /\ UNCHANGED <<data_channel, closing, rtc_out, last_send>>
    /\ RtcOnly

\* lines 92-96: create_offer makes the channel and registers its handlers.
RtcCreateOffer ==
    /\ rtc_state = "new"
    /\ data_channel = "none"
    /\ ~closing
    /\ data_channel' = "connecting"
    /\ UNCHANGED <<rtc_state, connected, ever_connected, closing, rtc_out,
                   last_send>>
    /\ RtcOnly

\* lines 50-53 and 69: the peer's channel arrives, already open, and
\* becomes self.data_channel.
RtcOnDatachannel ==
    /\ rtc_state \in {"connecting", "connected"}
    /\ ~closing
    /\ data_channel' = "open"
    /\ UNCHANGED <<rtc_state, connected, ever_connected, closing, rtc_out,
                   last_send>>
    /\ RtcOnly

\* lines 71-74: the channel opens.
RtcChannelOpen ==
    /\ rtc_state \in {"connecting", "connected"}
    /\ data_channel = "connecting"
    /\ data_channel' = "open"
    /\ connected' = TRUE
    /\ ever_connected' = TRUE
    /\ UNCHANGED <<rtc_state, closing, rtc_out, last_send>>
    /\ RtcOnly

\* lines 83-86: the channel closes (the peer closed it, the transport went
\* down, or close was called).
RtcChannelClose ==
    /\ data_channel \in {"connecting", "open", "closing"}
    /\ data_channel' = "closed"
    /\ connected' = FALSE
    /\ UNCHANGED <<rtc_state, ever_connected, closing, rtc_out, last_send>>
    /\ RtcOnly

\* lines 244-248: close(); the events it causes follow.
RtcClose ==
    /\ ~closing
    /\ closing' = TRUE
    /\ data_channel' = IF data_channel \in {"connecting", "open"}
                       THEN "closing" ELSE data_channel
    /\ UNCHANGED <<rtc_state, connected, ever_connected, rtc_out, last_send>>
    /\ RtcOnly

\* The test of line 232 without the readyState.
NoChannel(channel) == channel = "none"

\* line 232: not self.data_channel or self.data_channel.readyState != "open"
NotEstablished(channel) == channel = "none" \/ channel # "open"

\* lines 230-242; data_channel.send may raise.
RtcSendMessage ==
    /\ \E message \in RtcMessages :
          IF NotEstablished(data_channel)
          THEN /\ last_send' = [message |-> message, ready |-> data_channel,
                                result |-> FALSE, printed |-> NOT_CONNECTED]
               /\ UNCHANGED rtc_out
          ELSE \E raised \in BOOLEAN :
                  IF raised
                  THEN /\ last_send' =
                             [message |-> message, ready |-> data_channel,
                              result |-> FALSE, printed |-> SEND_ERROR]
                       /\ UNCHANGED rtc_out
                  ELSE /\ last_send' =
                             [message |-> message, ready |-> data_channel,
                              result |-> TRUE, printed |-> SENT]
                       /\ rtc_out' = IF Len(rtc_out) < MaxRtcOut
                                     THEN Append(rtc_out, message)
                                     ELSE rtc_out
    /\ UNCHANGED <<rtc_state, data_channel, connected, ever_connected,
                   closing>>
    /\ RtcOnly

RtcNext ==
    \/ RtcStateChange \/ RtcCreateOffer \/ RtcOnDatachannel
    \/ RtcChannelOpen \/ RtcChannelClose \/ RtcClose \/ RtcSendMessage

(***************************************************************************)
(* The specifications, one per program.                                    *)
(***************************************************************************)
StunSpec == StunInit /\ [][StunNext]_vars

\* The call runs to its end once started: a function body is not suspended.
StunFairSpec == StunSpec /\ WF_vars(StunNext)

NatSpec == NatInit /\ [][NatNext]_vars

UdpSpec == UdpInit /\ [][UdpNext]_vars

TcpSpec == TcpInit /\ [][TcpNext]_vars

GateSpec == GateInit /\ [][GateNext]_vars

RtcSpec == RtcInit /\ [][RtcNext]_vars

\* The threads are scheduled, every timed call returns, and the user of
\* each session presses Enter at line 250; nothing is assumed of what the
\* user types in the relay loop (TcpRelayInput) or of Ctrl-C.
TcpFairSpec ==
    /\ TcpSpec
    /\ \A s \in Sessions :
          /\ WF_vars(TcpStartListen(s)) /\ WF_vars(TcpStartPunch(s))
          /\ WF_vars(TcpJoined(s)) /\ WF_vars(TcpProcessExit(s))
          /\ WF_vars(TcpListenSetup(s)) /\ WF_vars(TcpListenPoll(s))
          /\ WF_vars(TcpPunchAttempt(s)) /\ WF_vars(TcpPunchConnect(s))
          /\ WF_vars(TcpRelayCheck(s)) /\ WF_vars(TcpOutboundReaderEnds(s))

\* The threads are scheduled and their sleeps end; nothing is assumed of
\* the user (MainRelay), the network (Arrive) or socket errors.
UdpFairSpec ==
    /\ UdpSpec
    /\ WF_vars(MainStartListen) /\ WF_vars(MainStartPunch)
    /\ WF_vars(MainWindowElapsed) /\ WF_vars(MainSetStop)
    /\ WF_vars(MainClose) /\ WF_vars(ProcessExit)
    /\ WF_vars(ListenRecv)
    /\ WF_vars(PunchCheck) /\ WF_vars(PunchSend) /\ WF_vars(PunchWake)

(***************************************************************************)
(* C1.  A response that carries exactly one MAPPED-ADDRESS attribute       *)
(* (reserved 0, family 0x01, port, IPv4 address), alone or after a         *)
(* SOFTWARE attribute, is parsed to exactly the encoded (ip, port); the    *)
(* response encoding 203.0.113.5:40000 yields ("203.0.113.5", 40000).      *)
(***************************************************************************)
EncodedPorts == {fp[2] : fp \in {q \in FamilyPorts : q[1] = 1}}

ValidMappedResponses(ip, port) ==
    {EncodeResponse(<<MappedAddressAttr(0, 1, port, ip)>>),
     EncodeResponse(<<Attr(32802, 0, <<>>),
                      MappedAddressAttr(0, 1, port, ip)>>)}

C1_RoundTrip ==
    parse_pc = "done" =>
        /\ \A ip \in {IpA, IpB} : \A port \in EncodedPorts :
               response \in ValidMappedResponses(ip, port)
                   => parsed = Mapped(Dotted(ip), port)
        /\ response \in ValidMappedResponses(IpA, 40000)
               => parsed = Mapped("203.0.113.5", 40000)

(***************************************************************************)
(* C2.  parse_stun_response never raises and always returns; a buffer      *)
(* shorter than 20 bytes yields Absent; every scan step that stays in the  *)
(* loop moves the offset forward by 4 + the declared attribute length;     *)
(* a mapped address is returned only from an attribute of type 0x0001      *)
(* with declared length >= 8 at the scan offset, so a buffer in which the  *)
(* scan finds none yields Absent.                                          *)
(***************************************************************************)
AttrTypeAt(resp, off) == U16(Slice(resp, off, off + 2))

AttrLengthAt(resp, off) == U16(Slice(resp, off + 2, off + 4))

C2_ParseTotal ==
    /\ [](parse_pc # "raised")
    /\ [](parse_pc = "done" /\ Len(response) < 20 => parsed = Absent)
    /\ [][parse_pc = "scan" /\ parse_pc' = "scan"
            => /\ offset' = offset + 4 + last_len'
               /\ last_len' >= 0
               /\ offset' > offset]_vars
    /\ [](parse_pc = "done" /\ parsed # Absent
            => /\ offset + 12 <= Len(response)
               /\ AttrTypeAt(response, offset) = 1
               /\ AttrLengthAt(response, offset) >= 8)
    /\ <>(parse_pc = "done")

\* A scan that met an empty attribute and one declared past the buffer.
C2_Witness ==
    /\ parse_pc = "done"
    /\ parsed = Absent
    /\ last_len = 65535
    /\ offset > Len(response) + 60000
    /\ Len(response) = 28
    /\ AttrLengthAt(response, 20) = 0

(***************************************************************************)
(* The probe results as the claims speak of them.                          *)
(***************************************************************************)
SameMappedIp == \A i, j \in 1..Len(results) : results[i][1] = results[j][1]

\* (mappedPort[i] - mappedPort[i-1]) - (localPort[i] - localPort[i-1])
Delta(i) ==
    (results[i][2] - results[i - 1][2]) - (results[i][3] - results[i - 1][3])

AllDeltasZero == \A i \in 2..Len(results) : Delta(i) = 0

AllDeltasPositive == \A i \in 2..Len(results) : Delta(i) > 0

MappedPortsDistinct ==
    \A i, j \in 1..Len(results) : i # j => results[i][2] # results[j][2]

IsSymmetric(t) == t \in {SYMMETRIC_IPS, SYMMETRIC_PORTS}

(***************************************************************************)
(* C3.  With 2 or 3 successful probe results: one common mapped IP and     *)
(* every consecutive delta 0 gives FULL_CONE; two results with different   *)
(* mapped IPs give SYMMETRIC, whatever the ports.  Local ports             *)
(* (9000, 9001) mapped to (40000, 40001) give FULL_CONE.                   *)
(***************************************************************************)
C3_FullConeOrSymmetric ==
    /\ nat_pc = "done" /\ Len(results) \in {2, 3} =>
          /\ SameMappedIp /\ AllDeltasZero => nat_type = FULL_CONE
          /\ ~SameMappedIp => IsSymmetric(nat_type)
    /\ Classify(<<<<"203.0.113.5", 40000, 9000>>,
                  <<"203.0.113.5", 40001, 9001>>>>) = FULL_CONE
    /\ Classify(<<<<"203.0.113.5", 40000, 9000>>,
                  <<"198.51.100.7", 40001, 9001>>>>) = SYMMETRIC_IPS

C3_Witness ==
    /\ nat_pc = "done"
    /\ Len(results) = 3
    /\ SameMappedIp
    /\ AllDeltasZero
    /\ nat_type = FULL_CONE

(***************************************************************************)
(* C4.  With 2 or 3 successful probe results, one common mapped IP and     *)
(* not all deltas zero: pairwise distinct mapped ports give                *)
(* PORT_RESTRICTED when every delta is strictly positive and SYMMETRIC     *)
(* when some delta is not; the result is ADDRESS_RESTRICTED exactly when   *)
(* two mapped ports coincide.  Local ports (9000, 9001) mapped to          *)
(* (40000, 40050) give PORT_RESTRICTED.                                    *)
(***************************************************************************)
C4_PortPattern ==
    /\ /\ nat_pc = "done"
       /\ Len(results) \in {2, 3}
       /\ SameMappedIp
       /\ ~AllDeltasZero
       => /\ MappedPortsDistinct /\ AllDeltasPositive
                => nat_type = PORT_RESTRICTED
          /\ MappedPortsDistinct /\ ~AllDeltasPositive
                => nat_type = SYMMETRIC_PORTS
          /\ nat_type = ADDRESS_RESTRICTED <=> ~MappedPortsDistinct
    /\ Classify(<<<<"203.0.113.5", 40000, 9000>>,
                  <<"203.0.113.5", 40050, 9001>>>>) = PORT_RESTRICTED

\* Three results, distinct mapped ports, one delta zero and one positive.
C4_Witness ==
    /\ nat_pc = "done"
    /\ Len(results) = 3
    /\ SameMappedIp
    /\ MappedPortsDistinct
    /\ Delta(2) = 0
    /\ Delta(3) > 0
    /\ nat_type = SYMMETRIC_PORTS

(***************************************************************************)
(* C5.  detect_nat_type makes at most 3 probes, the k-th on server k and   *)
(* local port base_port + k - 1; the probes that returned a mapped         *)
(* address are, in order, exactly the classification input; the result is  *)
(* UNKNOWN if and only if fewer than 2 probes returned a mapped address.   *)
(***************************************************************************)
ReturnedMapping(p) == p.outcome.value.some

ProbesReturned == SelectSeq(probes, ReturnedMapping)

PunchTerminated == punch_pc = "done" \/ udp_proc = "exited"

ListenTerminated == listen_pc = "done" \/ udp_proc = "exited"

(***************************************************************************)
(* C6.  Once stop_punch is set, both the listener and the puncher          *)
(* eventually terminate, with no further inbound datagram and no socket    *)
(* close needed.                                                           *)
(***************************************************************************)
C6_BothTasksStop == stop_punch ~> (PunchTerminated /\ ListenTerminated)

(***************************************************************************)
(* C10.  A UDP session in its discovery window always goes on to the       *)
(* relay loop, whatever was received and whether or not punch is alive;    *)
(* when only control markers have been received, nothing has been shown    *)
(* to the user as received from the peer (the session gives no sign of     *)
(* being connected) in the relay loop.                                     *)
(***************************************************************************)
\* The only sign of connectivity the session gives: a received message
\* printed by listen (line 13).
UdpConnected == delivered # <<>>

OnlyControlReceived == \A k \in 1..Len(arrived) : arrived[k] = HOLE_PUNCH

C10_WindowThenRelay ==
    /\ udp_main = "window" ~> udp_main = "relay"
    /\ [](udp_main = "relay" /\ OnlyControlReceived => ~UdpConnected)

\* Relaying after a window in which only control markers came in and
\* punch died of a send error.
C10_Witness ==
    /\ udp_main = "relay"
    /\ udp_proc = "running"
    /\ Len(arrived) >= 2
    /\ OnlyControlReceived
    /\ udp_inbox = <<>>
    /\ listen_pc = "recv"
    /\ punch_pc = "done"
    /\ udp_wire = <<>>
    /\ ~UdpConnected

(***************************************************************************)
(* The tasks of a TCP session as the claims speak of them.  A daemon       *)
(* thread has terminated when its function has returned or the process     *)
(* has exited.  A session is connected while it has an accepted or an      *)
(* outbound-connected stream.                                              *)
(***************************************************************************)
TcpListenTerminated(s) == lst_pc[s] = "done" \/ ~Running(s)

TcpPunchTerminated(s) == pun_pc[s] = "done" \/ ~Running(s)

TcpConnected(s) == conn[s] = "open" \/ osock[s] = "connected"

(***************************************************************************)
(* C7.  Once stop_event is set, tcp_listen and tcp_punch terminate, the    *)
(* next step of tcp_punch being its return wherever it is (retrying,       *)
(* connecting, relaying), and no message is sent after the flag is set.    *)
(***************************************************************************)
C7_StopObserved ==
    /\ \A s \in Sessions :
          stop_event[s] ~> (TcpListenTerminated(s) /\ TcpPunchTerminated(s))
    /\ [][\A s \in Sessions :
            stop_event[s] /\ pun_pc'[s] # pun_pc[s] /\ pun_pc[s] # "connect"
               => pun_pc'[s] = "done"]_vars
    /\ [][\A s \in Sessions :
            stop_event[s] => last_sent'[s] = last_sent[s]]_vars

(***************************************************************************)
(* C8.  Exactly one of tcp_listen and tcp_punch wins per session: no       *)
(* session holds both an accepted connection and an outbound-connected     *)
(* socket, and tcp_punch makes no connect attempt after tcp_listen has     *)
(* accepted.                                                               *)
(***************************************************************************)
C8_SingleWinner ==
    /\ [](\A s \in Sessions :
            ~(conn[s] = "open" /\ osock[s] = "connected"))
    /\ [][\A s \in Sessions :
            conn[s] # "none"
               => ~(pun_pc[s] = "connect" /\ pun_pc'[s] # "connect")]_vars

(***************************************************************************)
(* C9.  With no fault of the network or the OS, fair scheduling and        *)
(* neither session stopped by its user, both sessions eventually are       *)
(* connected.                                                              *)
(***************************************************************************)
C9_BothConnect ==
    ~net_faults =>
        \A s \in Sessions :
            <>(TcpConnected(s) \/ \E r \in Sessions : stop_event[r])

(***************************************************************************)
(* C11.  Every call of get_mapped_address has closed the socket it         *)
(* created when it returns, on every outcome; after any sequence of        *)
(* probes no probe socket is left open.                                    *)
(***************************************************************************)
C11_ProbeSocketsReleased ==
    \A k \in 1..Len(probes) :
        probes[k].outcome.created => probes[k].outcome.closed

(***************************************************************************)
(* C12, as claimed.  Every call sends exactly one binding request and      *)
(* returns a result or failure, never an exception.                        *)
(***************************************************************************)
ProbeFailed(p) == p.outcome.value = Absent

C12_OneRequestPerCall ==
    \A k \in 1..Len(probes) :
        /\ probes[k].outcome.sent = 1
        /\ probes[k].outcome.value # Raised

(***************************************************************************)
(* C12, amended.  Every call sends at most one binding request, exactly    *)
(* one when socket, bind and sendto succeeded, and never a second one; a   *)
(* socket error, a timeout and a reply that does not decode each make it   *)
(* return failure without raising.                                         *)
(***************************************************************************)
C12_AtMostOneRequest ==
    \A k \in 1..Len(probes) :
        /\ probes[k].outcome.sent <= 1
        /\ probes[k].outcome.sent = 1
              <=> probes[k].step \in {"recvfrom", "reply"}
        /\ probes[k].outcome.value # Raised
        /\ probes[k].step # "reply" => ProbeFailed(probes[k])
        /\ ~probes[k].outcome.closed => ProbeFailed(probes[k])

\* A bind failure, a receive timeout and a reply without a mapped address.
C12_Witness ==
    /\ Len(probes) = 3
    /\ probes[1].step = "bind"
    /\ probes[2].step = "recvfrom"
    /\ probes[3].step = "reply"
    /\ \A k \in 1..3 : ProbeFailed(probes[k])
    /\ nat_pc = "done"
    /\ nat_type = UNKNOWN

(***************************************************************************)
(* C13.  No task is started and no session socket exists before the        *)
(* classification has returned; after a SYMMETRIC classification the       *)
(* question is asked and the tasks are started only after the answer y;    *)
(* after any other answer the session ends with no task started and no     *)
(* session socket.                                                         *)
(***************************************************************************)
NothingStarted(s) ==
    /\ lst_pc[s] = "unstarted"
    /\ pun_pc[s] = "unstarted"
    /\ lsock[s] = "none"
    /\ conn[s] = "none"
    /\ osock[s] = "none"

Asked(s) == t_choice[s] # NoChoice

C13_GateBeforeTasks ==
    \A s \in Sessions :
        /\ t_main[s] \in {"idle", "classify", "gate", "external"}
              => NothingStarted(s)
        /\ t_nat[s] = "" <=> t_main[s] \in {"idle", "classify"}
        /\ Asked(s) => t_nat[s] \in {SYMMETRIC_IPS, SYMMETRIC_PORTS}
        /\ t_nat[s] \in {SYMMETRIC_IPS, SYMMETRIC_PORTS}
              /\ t_main[s] # "gate" => Asked(s)
        /\ ~NothingStarted(s) /\ Asked(s) => t_choice[s] \in {"y", "Y"}
        /\ Asked(s) /\ t_choice[s] \notin {"y", "Y"}
              => NothingStarted(s) /\ t_main[s] \in {"returned", "exited"}

\* Declined after the warning, and the process has ended.
C13_Witness ==
    /\ t_nat[1] = SYMMETRIC_PORTS
    /\ t_choice[1] = "n"
    /\ t_main[1] = "exited"
    /\ NothingStarted(1)

(***************************************************************************)
(* C14.  In the relay loop the inputs quit and exit end the session:       *)
(* neither is sent to the peer, and when main has returned the flag is     *)
(* set and the socket is closed.                                           *)
(***************************************************************************)
EndsSession(msg) == Lower(msg) \in {"quit", "exit"}

C14_QuitAndExitEnd ==
    /\ \A k \in 1..Len(udp_wire) :
          udp_wire[k].by = "main" => ~EndsSession(udp_wire[k].payload)
    /\ udp_main = "returned" => stop_punch /\ udp_sock = "closed"

(***************************************************************************)
(* C15.  Whatever the payloads, the listener has delivered exactly the     *)
(* datagrams it has taken from the socket that are not the control         *)
(* marker, in arrival order, and it keeps running: it leaves its loop      *)
(* only when recvfrom raises.                                              *)
(***************************************************************************)
Taken == SubSeq(arrived, 1, Len(arrived) - Len(udp_inbox))

NotMarker(data) == data # HOLE_PUNCH

C15_DeliversNonMarkers ==
    /\ delivered = SelectSeq(Taken, NotMarker)
    /\ listen_pc = "done" => listen_exit = "recv"

(***************************************************************************)
(* C18.  Every datagram sent on the session socket once the flag is set    *)
(* and main is in relay mode is a user message sent by main: punch sends   *)
(* no HOLE_PUNCH any more.                                                 *)
(***************************************************************************)
C18_NoMarkerInRelay ==
    \A k \in 1..Len(udp_wire) :
        udp_wire[k].stopped
           => udp_wire[k].by = "main" /\ udp_wire[k].payload # HOLE_PUNCH

(***************************************************************************)
(* C16.  Over any sequence of transport events self.connected goes from    *)
(* False to True at most once, and from True to False only after close     *)
(* has been called.                                                        *)
(***************************************************************************)
C16_ConnectedOnceUntilClose ==
    [][/\ ~connected /\ connected' => ~ever_connected
       /\ connected /\ ~connected' => closing]_vars

(***************************************************************************)
(* C17.  send_message on a session with no data channel, or with one       *)
(* whose readyState is not open, hands nothing to the channel, prints      *)
(* "Not connected", returns False and changes nothing else; a message is   *)
(* handed to the channel only when it is open.                             *)
(***************************************************************************)
C17_SendOnlyWhenOpen ==
    /\ [](last_send # NoCall /\ last_send.ready # "open"
            => last_send.result = FALSE /\ last_send.printed = NOT_CONNECTED)
    /\ [](last_send.result => last_send.ready = "open")
    /\ [][rtc_out' # rtc_out
            => /\ data_channel = "open"
               /\ last_send'.result
               /\ rtc_out' = Append(rtc_out, last_send'.message)]_vars
    /\ [][last_send' # last_send /\ last_send'.ready # "open"
            => UNCHANGED <<rtc_state, data_channel, connected,
                           ever_connected, closing, rtc_out>>]_vars

\* A send refused on a closed channel after an earlier one went through.
C17_Witness ==
    /\ data_channel = "closed"
    /\ rtc_out = <<"hi">>
    /\ last_send = [message |-> "hi", ready |-> "closed", result |-> FALSE,
                    printed |-> NOT_CONNECTED]

(***************************************************************************)
(* C19.  Once tcp_punch has completed an outbound connect and is           *)
(* relaying, nothing takes it back to the connect-retry loop or makes it   *)
(* open a new outbound socket: it stays in the relay loop until it         *)
(* returns.                                                                *)
(***************************************************************************)
Relaying(s) == pun_pc[s] \in {"relay_check", "input"}

C19_RelayNeverRetries ==
    [][\A s \in Sessions :
          Relaying(s) => pun_pc'[s] \in {"relay_check", "input", "done"}]_vars

(***************************************************************************)
(* C20.  When the race resolves, by an accepted inbound connection as      *)
(* well as by an outbound connect, the session eventually is in the relay  *)
(* loop (unless one of the two sessions is stopped first).                 *)
(***************************************************************************)
SomeStopped == \E r \in Sessions : stop_event[r] \/ ~Running(r)

C20_RelayAfterEitherOutcome ==
    \A s \in Sessions : TcpConnected(s) ~> (Relaying(s) \/ SomeStopped)

(***************************************************************************)
(* C21: a failure of the TCP listener (bind or listen failing at setup, an *)
(* accept error other than a timeout) ends the listener task only: the     *)
(* step that ends it leaves the cancellation flag and the connector as     *)
(* they are, and leaves no listening socket open.                          *)
(***************************************************************************)
ListenerFails(s) ==
    /\ lst_pc[s] \in {"setup", "accept"}
    /\ lst_pc'[s] = "done"
    /\ ~stop_event[s]
    /\ conn'[s] = conn[s]

C21_ListenerFailureIsolated ==
    [][\A s \in Sessions :
          ListenerFails(s) =>
              /\ stop_event' = stop_event
              /\ pun_pc' = pun_pc
              /\ lsock'[s] \in {"none", "closed"}]_vars

(***************************************************************************)
(* C22: no socket error ends a UDP session abnormally: main never leaves   *)
(* by an exception (bind failing, sendto failing in the relay loop), and   *)
(* the process ends only after the user's quit.                            *)
(***************************************************************************)
AbnormalEnd == udp_main = "raised"

C22_NoAbnormalEnd ==
    /\ ~AbnormalEnd
    /\ udp_proc = "exited" => udp_main = "returned"

(***************************************************************************)
(* C23: tcp_punch closes the socket of a connect attempt before the next   *)
(* attempt opens a new one and before it terminates: whenever the          *)
(* connector is at the top of its loop, or has ended, it holds no open     *)
(* outbound socket.                                                        *)
(***************************************************************************)
BetweenAttempts(s) == pun_pc[s] \in {"retry", "done"}

HoldsOutbound(s) == osock[s] \in {"open", "connected"}

C23_AttemptSocketClosed ==
    \A s \in Sessions : BetweenAttempts(s) => ~HoldsOutbound(s)

====
